---- MODULE Spec2Model ----
(***************************************************************************)
(* State-machine model of the DF watcher server: the 1 s poll loop, the    *)
(* detection cycle handleOneSubscription, the dedupe cache, the SSE        *)
(* broadcaster and the Discord webhook notifier, the paginated timeline    *)
(* fetchers and the rarity classifiers.                                    *)
(*                                                                         *)
(* Times are milliseconds since an arbitrary origin; an ISO timestamp      *)
(* (Date#toISOString, millisecond precision) is modelled by that number.   *)
(* The two Hangul syllables of the native rarity label (U+D0DC U+CD08)     *)
(* are written "TAE" and "CHO"; a label is a sequence of characters.       *)
(***************************************************************************)
EXTENDS Integers, Sequences, FiniteSets, TLC

(* ------------------------------ bounds -------------------------------- *)
\* timer ticks of the poll loop that the model fires
MaxTicks == 2
\* registration calls (subscription objects ever created)
MaxSubscribe == 2
\* clock value of the initial state
Epoch == 2000000

(* ------------------------- program constants -------------------------- *)
POLL_INTERVAL_SEC == 15
DEDUPE_TTL_MS == 2 * 24 * 60 * 60 * 1000
\* period of the poll loop's setInterval
POLL_TICK_MS == 1000
\* slack subtracted from the poll interval in the due test
POLL_SLACK_MS == 200
\* a new subscription's lastCheckedISO is set this far in the past
SUBSCRIBE_BACKDATE_MS == 30 * 60 * 1000
\* at most this many item ids go into one item-detail lookup
DETAIL_BATCH == 15

(* ------------------------- upstream test data ------------------------- *)
Keys == {"cain:c1"}

Taecho == <<"TAE", "CHO">>
LabelAncient == <<"a", "n", "c", "i", "e", "n", "t">>
LabelRare == <<"r", "a", "r", "e">>

\* fifteen distinct ids of common items
FillerIds ==
    <<"F01", "F02", "F03", "F04", "F05", "F06", "F07", "F08", "F09", "F10",
      "F11", "F12", "F13", "F14", "F15">>

\* rows of the upstream item-detail endpoint (item "Q" has no row)
ItemDb ==
    { [itemId |-> "A", itemName |-> "a", rarity |-> LabelRare],
      [itemId |-> "X", itemName |-> "x", rarity |-> LabelAncient],
      [itemId |-> "Y", itemName |-> "y", rarity |-> Taecho],
      [itemId |-> "W", itemName |-> "w", rarity |-> Taecho],
      [itemId |-> "Z", itemName |-> "z", rarity |-> Taecho],
      [itemId |-> "U", itemName |-> "u", rarity |-> Taecho] }
    \cup { [itemId |-> FillerIds[j], itemName |-> "f", rarity |-> LabelRare] :
             j \in 1..Len(FillerIds) }

EntryTime == Epoch - 60 * 1000

\* an itemId of "" stands for a timeline entry without data.itemId
TlEmpty == << >>
TlScenario ==
    << [itemId |-> "A", date |-> EntryTime - 2],
       [itemId |-> "",  date |-> EntryTime - 1],
       [itemId |-> "X", date |-> EntryTime] >>
TlNative ==
    << [itemId |-> "Q", date |-> EntryTime],
       [itemId |-> "Y", date |-> EntryTime],
       [itemId |-> "W", date |-> EntryTime] >>
\* fifteen entries of distinct common items, then one of the rare item "Z"
TlMany ==
    [j \in 1..Len(FillerIds) |-> [itemId |-> FillerIds[j], date |-> EntryTime]]
        \o << [itemId |-> "Z", date |-> EntryTime] >>
\* one entry of the rare item "U" that carries no date field (date 0)
TlUndated == << [itemId |-> "U", date |-> 0] >>
Timelines == {TlEmpty, TlScenario, TlNative, TlMany, TlUndated}

\* delays between timer ticks: one period, one poll interval, one dedupe TTL,
\* and one period past the TTL (a record put at the earlier tick has expired)
Jumps ==
    {POLL_TICK_MS, POLL_INTERVAL_SEC * 1000, DEDUPE_TTL_MS,
     DEDUPE_TTL_MS + POLL_TICK_MS}

(* ------------------------------- state -------------------------------- *)
VARIABLES
    now,            \* Date.now()
    webhookSet,     \* DISCORD_WEBHOOK_URL is non-empty
    subscriptions,  \* the Map, in insertion order: <<[key, obj]>>
    subObjs,        \* subscription objects, by identity
    ticks,          \* invocations of the poll loop's async callback
    sentKeys,       \* dedupe Map: event key -> expireAt
    sseClients,     \* the Set of open responses, in insertion order
    broken,         \* responses whose write throws
    received,       \* per response: event ids written to it
    posted,         \* webhook POSTs: <<[id, st, n, sub]>>
    fin,            \* the detection cycle that finished last (history)
    lookup,         \* the hasDedupe call made last (history)
    gone,           \* responses whose request has closed
    pub,            \* the sseBroadcast call made last (history)
    fx,             \* a fetchTimelineAll call
    rar,            \* a rarity classification
    chan,           \* the live channel: listener, timers, write history
    viewer          \* the web client: its events state and the message handled last

Responses == {1, 2, 3}

vars == <<now, webhookSet, subscriptions, subObjs,
          ticks, sentKeys, sseClients, broken, received, posted, fin,
          lookup, gone, pub, fx, rar, chan, viewer>>

\* the state of the poll loop and its cycles
pollVars == <<webhookSet, subscriptions, subObjs, ticks, posted, fin>>
\* the state only the component specifications below use
partVars == <<lookup, gone, pub, fx, rar, chan, viewer>>

(* ----------------------------- Map helpers ---------------------------- *)
HasKey(m, k) == k \in DOMAIN m
MapSet(m, k, v) ==
    [x \in (DOMAIN m) \cup {k} |-> IF x = k THEN v ELSE m[x]]
MapDelete(m, k) == [x \in (DOMAIN m) \ {k} |-> m[x]]

\* position of key k in the subscriptions Map, 0 when absent
RECURSIVE SubIndexFrom(_, _, _)
SubIndexFrom(m, k, j) ==
    IF j > Len(m) THEN 0
    ELSE IF m[j].key = k THEN j
    ELSE SubIndexFrom(m, k, j + 1)
SubIndex(m, k) == SubIndexFrom(m, k, 1)

\* subscriptions.set(key, obj): a present key keeps its position
SubscriptionsSet(m, k, o) ==
    IF SubIndex(m, k) = 0
    THEN Append(m, [key |-> k, obj |-> o])
    ELSE [m EXCEPT ![SubIndex(m, k)] = [key |-> k, obj |-> o]]

(* ----------------------------- dedupe cache --------------------------- *)
makeEventKey(key, itemId, timeISO) == <<key, itemId, timeISO>>

putDedupe(sk, key, t) == MapSet(sk, key, t + DEDUPE_TTL_MS)

\* hasDedupe without the expiry test on lookup
hasDedupeNoLazyExpiry(sk, key, t) ==
    IF ~HasKey(sk, key) THEN [seen |-> FALSE, sentKeys |-> sk]
    ELSE [seen |-> TRUE, sentKeys |-> sk]

\* hasDedupe with a sliding expiry: a lookup answering "seen" renews the record
hasDedupeSliding(sk, key, t) ==
    IF ~HasKey(sk, key) THEN [seen |-> FALSE, sentKeys |-> sk]
    ELSE IF sk[key] < t THEN [seen |-> FALSE, sentKeys |-> MapDelete(sk, key)]
    ELSE [seen |-> TRUE, sentKeys |-> putDedupe(sk, key, t)]

\* hasDedupe returns the answer and the Map it leaves behind
hasDedupe(sk, key, t) ==
    IF ~HasKey(sk, key) THEN [seen |-> FALSE, sentKeys |-> sk]
    ELSE IF sk[key] < t THEN [seen |-> FALSE, sentKeys |-> MapDelete(sk, key)]
    ELSE [seen |-> TRUE, sentKeys |-> sk]

\* a sweep that also removes the records expiring at the very instant t
SweepKeysInclusive(sk, t) ==
    [k \in {x \in DOMAIN sk : sk[x] > t} |-> sk[k]]

\* the 60 s sweep
SweepKeys(sk, t) ==
    [k \in {x \in DOMAIN sk : ~(sk[x] < t)} |-> sk[k]]

(* ------------------------------ broadcaster --------------------------- *)
\* sseBroadcast without the try around the write: the first throwing write
\* leaves the loop and the function
RECURSIVE sseBroadcastNoCatchFrom(_, _, _, _, _)
sseBroadcastNoCatchFrom(clients, brk, rcv, id, j) ==
    IF j > Len(clients) THEN [received |-> rcv, raised |-> FALSE]
    ELSE IF clients[j] \in brk
         THEN [received |-> rcv, raised |-> TRUE]
         ELSE sseBroadcastNoCatchFrom(clients, brk,
                  [rcv EXCEPT ![clients[j]] = Append(@, id)], id, j + 1)
sseBroadcastNoCatch(clients, brk, rcv, id) ==
    sseBroadcastNoCatchFrom(clients, brk, rcv, id, 1)

\* sseBroadcast: one write per registered response, each in its own try
RECURSIVE sseBroadcastFrom(_, _, _, _, _)
sseBroadcastFrom(clients, brk, rcv, id, j) ==
    IF j > Len(clients) THEN [received |-> rcv, raised |-> FALSE]
    ELSE IF clients[j] \in brk
         THEN sseBroadcastFrom(clients, brk, rcv, id, j + 1)
         ELSE sseBroadcastFrom(clients, brk,
                  [rcv EXCEPT ![clients[j]] = Append(@, id)], id, j + 1)
sseBroadcast(clients, brk, rcv, id) == sseBroadcastFrom(clients, brk, rcv, id, 1)

(* --------------------------- item-detail lookup ----------------------- *)
RECURSIVE Unique(_, _)
\* [...new Set(ids)]: first occurrences, in order
Unique(ids, acc) ==
    IF ids = << >> THEN acc
    ELSE IF \E j \in 1..Len(acc) : acc[j] = Head(ids)
         THEN Unique(Tail(ids), acc)
         ELSE Unique(Tail(ids), Append(acc, Head(ids)))

\* events.map(ev => ev?.data?.itemId).filter(Boolean)
ItemIdsOf(events) ==
    SelectSeq([j \in 1..Len(events) |-> events[j].itemId], LAMBDA x : x # "")

\* the ids fetchItemsDetail asks for: the first 15 distinct ones
DetailIds(itemIds) ==
    LET u == Unique(itemIds, << >>)
    IN  SubSeq(u, 1, IF Len(u) < DETAIL_BATCH THEN Len(u) ELSE DETAIL_BATCH)

\* byId of the rows upstream returns for those ids
ById(events) ==
    LET ids == DetailIds(ItemIdsOf(events))
        asked == {ids[j] : j \in 1..Len(ids)}
        rows == {r \in ItemDb : r.itemId \in asked}
    IN  [x \in {r.itemId : r \in rows} |-> CHOOSE r \in rows : r.itemId = x]

\* the rarity test of the polling detector: info.rarity === "U+D0DC U+CD08"
PollIsAncient(r) == r = Taecho

(* ------------------------------ poll loop ----------------------------- *)
NoLookup == [key |-> << >>, had |-> FALSE, exp |-> 0, at |-> 0, seen |-> FALSE,
             kept |-> FALSE]

NoPub == [id |-> << >>, order |-> << >>, failed |-> {}, wrote |-> {},
          raised |-> FALSE]

NoFetch ==
    [pc |-> "idle", variant |-> "", page |-> 0, requests |-> 0,
     req |-> [host |-> "", path |-> "", key |-> FALSE, at |-> 0],
     out |-> << >>, next |-> "none", pages |-> << >>]

\* variant: which server's GET /events is listening ("" before app.listen);
\* seq: publishes made; joined/left: seq at connect/close (-1: not yet);
\* tried/wrote: the publishes whose write was attempted on / reached a
\* response; timer: responses with a running keep-alive interval;
\* pinged: responses a keep-alive ping was written to; it: the for-of loop
\* of an sseBroadcast call in progress (before: the Set when the call began,
\* visited: the responses the iterator has yielded, writes: successful writes
\* of the call per response)
NoIter ==
    [pc |-> "idle", id |-> << >>, before |-> {}, visited |-> {},
     writes |-> [c \in Responses |-> 0]]

NoChan ==
    [variant |-> "", seq |-> 0,
     joined |-> [c \in Responses |-> -1], left |-> [c \in Responses |-> -1],
     tried |-> [c \in Responses |-> << >>],
     wrote |-> [c \in Responses |-> << >>],
     timer |-> {}, pinged |-> {}, latePing |-> FALSE, it |-> NoIter]

NoRar ==
    [pc |-> "idle", det |-> "", label |-> [str |-> FALSE, chars |-> << >>],
     accepted |-> FALSE]

\* prevEnd (history): the window end of the cycle of the same entity that
\* had finished last, successfully, when this cycle started; 0 otherwise
NoCycle ==
    [pc |-> "done", tnow |-> 0, idx |-> 0, sub |-> 0, startISO |-> 0,
     endISO |-> 0, events |-> << >>, i |-> 0, post |-> 0, prevEnd |-> 0]

NoFin ==
    [n |-> 0, sub |-> 0, startISO |-> 0, endISO |-> 0, events |-> << >>,
     outcome |-> "none", lcBefore |-> 0, lcAfter |-> 0]

Running(tk) == tk.pc \in {"fetch", "detail", "hook"}

\* now - last < POLL_INTERVAL_SEC * 1000 - 200 is the loop's "continue"
Due(o, tnow) ==
    ~(tnow - o.lastRunAt < POLL_INTERVAL_SEC * 1000 - POLL_SLACK_MS)

\* handleOneSubscription up to its first await (the timeline request)
StartCycle(w, j, o, t) ==
    LET old == w.subObjs[o]
        gap == t - old.startedAt
    IN
    [w EXCEPT
        !.subObjs[o] =
            [old EXCEPT
                !.lastRunAt = w.tick.tnow,
                !.startedAt = t,
                !.minGap = IF old.startedAt = 0 THEN old.minGap
                           ELSE IF old.minGap = -1 \/ gap < old.minGap THEN gap
                           ELSE old.minGap],
        !.tick = [pc |-> "fetch", tnow |-> w.tick.tnow, idx |-> j, sub |-> o,
                  startISO |-> IF w.subObjs[o].lastCheckedISO # 0
                               THEN w.subObjs[o].lastCheckedISO
                               ELSE t - POLL_INTERVAL_SEC * 1000,
                  endISO |-> t, events |-> << >>, i |-> 0, post |-> 0,
                  prevEnd |-> IF w.fin.outcome \in {"ok", "empty"}
                                 /\ w.subObjs[w.fin.sub].key = old.key
                              THEN w.fin.endISO ELSE 0]]

\* the for-of loop over the Map from position j, until a cycle is awaited
RECURSIVE PollLoop(_, _, _, _)
PollLoop(w, subs, j, t) ==
    IF j > Len(subs) THEN [w EXCEPT !.tick = NoCycle]
    ELSE IF ~Due(w.subObjs[subs[j].obj], w.tick.tnow)
         THEN PollLoop(w, subs, j + 1, t)
         ELSE StartCycle(w, j, subs[j].obj, t)

\* a cycle whose failure leaves handleOneSubscription: the callback's
\* for-of loop is abandoned
EndCycleEscapes(w, subs, n, outcome, advance, t) ==
    LET tk == w.tick
        lc == w.subObjs[tk.sub].lastCheckedISO
        so == IF advance
              THEN [w.subObjs EXCEPT ![tk.sub].lastCheckedISO = tk.endISO]
              ELSE w.subObjs
        f  == [n |-> n, sub |-> tk.sub, startISO |-> tk.startISO,
               endISO |-> tk.endISO, events |-> tk.events,
               outcome |-> outcome,
               lcBefore |-> lc, lcAfter |-> so[tk.sub].lastCheckedISO]
    IN  IF advance
        THEN PollLoop([w EXCEPT !.subObjs = so, !.fin = f], subs, tk.idx + 1, t)
        ELSE [w EXCEPT !.fin = f, !.tick = NoCycle]

\* a cycle returns (normally or through its catch): the loop goes on
EndCycle(w, subs, n, outcome, advance, t) ==
    LET tk == w.tick
        lc == w.subObjs[tk.sub].lastCheckedISO
        so == IF advance
              THEN [w.subObjs EXCEPT ![tk.sub].lastCheckedISO = tk.endISO]
              ELSE w.subObjs
        f  == [n |-> n, sub |-> tk.sub, startISO |-> tk.startISO,
               endISO |-> tk.endISO, events |-> tk.events,
               outcome |-> outcome,
               lcBefore |-> lc, lcAfter |-> so[tk.sub].lastCheckedISO]
    IN  PollLoop([w EXCEPT !.subObjs = so, !.fin = f], subs, tk.idx + 1, t)

\* an entry loop that treats an entry without item id or without item row
\* as an error of the cycle
RECURSIVE ProcessEventsStrict(_, _, _, _, _)
ProcessEventsStrict(w, subs, n, i, t) ==
    LET tk == w.tick IN
    IF i > Len(tk.events) THEN EndCycle(w, subs, n, "ok", TRUE, t)
    ELSE
    LET ev     == tk.events[i]
        itemId == ev.itemId
        byId   == ById(tk.events)
    IN
    IF itemId = "" \/ ~HasKey(byId, itemId)
    THEN EndCycle(w, subs, n, "detail_fail", FALSE, t)
    ELSE IF ~PollIsAncient(byId[itemId].rarity)
         THEN ProcessEventsStrict(w, subs, n, i + 1, t)
    ELSE
    LET timeISO == IF ev.date # 0 THEN ev.date ELSE tk.endISO
        key == makeEventKey(w.subObjs[tk.sub].key, itemId, timeISO)
        h   == hasDedupe(w.sentKeys, key, t)
        b   == sseBroadcast(sseClients, broken, w.received, key)
    IN
    IF h.seen THEN ProcessEventsStrict(w, subs, n, i + 1, t)
    ELSE IF b.raised
         THEN EndCycle([w EXCEPT !.sentKeys = h.sentKeys,
                                 !.received = b.received],
                       subs, n, "publish_fail", FALSE, t)
    ELSE IF ~webhookSet
         THEN ProcessEventsStrict(
                  [w EXCEPT !.sentKeys = putDedupe(h.sentKeys, key, t),
                            !.received = b.received],
                  subs, n, i + 1, t)
    ELSE [w EXCEPT !.sentKeys = h.sentKeys,
                   !.received = b.received,
                   !.posted = Append(@, [id |-> key, st |-> "sent", n |-> n,
                                        sub |-> tk.sub]),
                   !.tick = [tk EXCEPT !.pc = "hook", !.i = i,
                                       !.post = Len(w.posted) + 1]]

\* the entry loop of handleOneSubscription from entry i, up to the next
\* await (the webhook POST) or the end of the cycle
RECURSIVE ProcessEvents(_, _, _, _, _)
ProcessEvents(w, subs, n, i, t) ==
    LET tk == w.tick IN
    IF i > Len(tk.events) THEN EndCycle(w, subs, n, "ok", TRUE, t)
    ELSE
    LET ev     == tk.events[i]
        itemId == ev.itemId
        byId   == ById(tk.events)
    IN
    IF itemId = "" THEN ProcessEvents(w, subs, n, i + 1, t)
    ELSE IF ~HasKey(byId, itemId) THEN ProcessEvents(w, subs, n, i + 1, t)
    ELSE IF ~PollIsAncient(byId[itemId].rarity)
         THEN ProcessEvents(w, subs, n, i + 1, t)
    ELSE
    LET timeISO == IF ev.date # 0 THEN ev.date ELSE tk.endISO
        key == makeEventKey(w.subObjs[tk.sub].key, itemId, timeISO)
        h   == hasDedupe(w.sentKeys, key, t)
        b   == sseBroadcast(sseClients, broken, w.received, key)
    IN
    IF h.seen THEN ProcessEvents(w, subs, n, i + 1, t)
    ELSE IF b.raised
         THEN EndCycle([w EXCEPT !.sentKeys = h.sentKeys,
                                 !.received = b.received],
                       subs, n, "publish_fail", FALSE, t)
    ELSE IF ~webhookSet
         THEN ProcessEvents(
                  [w EXCEPT !.sentKeys = putDedupe(h.sentKeys, key, t),
                            !.received = b.received],
                  subs, n, i + 1, t)
    ELSE [w EXCEPT !.sentKeys = h.sentKeys,
                   !.received = b.received,
                   !.posted = Append(@, [id |-> key, st |-> "sent", n |-> n,
                                        sub |-> tk.sub]),
                   !.tick = [tk EXCEPT !.pc = "hook", !.i = i,
                                       !.post = Len(w.posted) + 1]]

World(n) ==
    [subObjs |-> subObjs, sentKeys |-> sentKeys, received |-> received,
     posted |-> posted, tick |-> ticks[n], fin |-> fin]

\* the state a step of tick n leaves behind
Commit(n, w) ==
    /\ subObjs' = w.subObjs
    /\ sentKeys' = w.sentKeys
    /\ received' = w.received
    /\ posted' = w.posted
    /\ fin' = w.fin
    /\ ticks' = [ticks EXCEPT ![n] = w.tick]

(* ------------------------------- actions ------------------------------ *)
\* POST /subscribe with a character id: subscriptions.set(key, {...}).
\* startedAt and minGap are history: the wall-clock time of the object's
\* last cycle start (0: none) and the smallest distance between two
\* consecutive cycle starts (-1: none)
Subscribe(k) ==
    /\ Len(subObjs) < MaxSubscribe
    /\ subObjs' = Append(subObjs,
           [key |-> k, lastCheckedISO |-> now - SUBSCRIBE_BACKDATE_MS,
            createdAt |-> now, lastRunAt |-> 0, startedAt |-> 0,
            minGap |-> -1])
    /\ subscriptions' = SubscriptionsSet(subscriptions, k, Len(subObjs) + 1)
    /\ UNCHANGED <<now, webhookSet, ticks, sentKeys,
                   sseClients, broken, received, posted, fin, partVars>>

\* a timer callback that starts nothing while the callback of an earlier
\* tick is still awaiting a cycle
TickSerial(d) ==
    /\ Len(ticks) < MaxTicks
    /\ now' = now + d
    /\ LET w0 == [subObjs |-> subObjs, sentKeys |-> sentKeys,
                  received |-> received, posted |-> posted,
                  tick |-> [NoCycle EXCEPT !.tnow = now'], fin |-> fin]
           w  == IF Len(subscriptions) = 0
                    \/ \E m \in 1..Len(ticks) : Running(ticks[m])
                 THEN [w0 EXCEPT !.tick = NoCycle]
                 ELSE PollLoop(w0, subscriptions, 1, now')
       IN  /\ ticks' = Append(ticks, w.tick)
           /\ subObjs' = w.subObjs
    /\ UNCHANGED <<webhookSet, subscriptions, sentKeys,
                   sseClients, broken, received, posted, fin, partVars>>

\* the poll loop's timer fires d ms after the instant of the last step (the
\* clock moves only here: every other step happens at the instant of the
\* tick before it); the async callback runs to its first await
Tick(d) ==
    /\ Len(ticks) < MaxTicks
    /\ now' = now + d
    /\ LET w0 == [subObjs |-> subObjs, sentKeys |-> sentKeys,
                  received |-> received, posted |-> posted,
                  tick |-> [NoCycle EXCEPT !.tnow = now'], fin |-> fin]
           w  == IF Len(subscriptions) = 0 THEN [w0 EXCEPT !.tick = NoCycle]
                 ELSE PollLoop(w0, subscriptions, 1, now')
       IN  /\ ticks' = Append(ticks, w.tick)
           /\ subObjs' = w.subObjs
    /\ UNCHANGED <<webhookSet, subscriptions, sentKeys,
                   sseClients, broken, received, posted, fin, partVars>>

\* a failing fetch that hands the pages collected before the failure to the
\* entry loop
FetchFailPartial(n) ==
    /\ ticks[n].pc = "fetch"
    /\ Commit(n, ProcessEvents([World(n) EXCEPT !.tick.events = TlNative],
                                subscriptions, n, 1, now))
    /\ UNCHANGED <<now, webhookSet, subscriptions,
                   sseClients, broken, partVars>>

\* the timeline request of tick n's cycle fails (fetchTimelineAll throws)
FetchFail(n) ==
    /\ ticks[n].pc = "fetch"
    /\ Commit(n, EndCycle(World(n), subscriptions, n, "fetch_fail", FALSE, now))
    /\ UNCHANGED <<now, webhookSet, subscriptions,
                   sseClients, broken, partVars>>

\* fetchTimelineAll returns events
FetchOk(n, events) ==
    /\ ticks[n].pc = "fetch"
    /\ LET w == [World(n) EXCEPT !.tick.events = events] IN
       IF Len(events) = 0
       THEN Commit(n, EndCycle(w, subscriptions, n, "empty", TRUE, now))
       ELSE IF Len(DetailIds(ItemIdsOf(events))) = 0
            THEN Commit(n, ProcessEvents(w, subscriptions, n, 1, now))
            ELSE Commit(n, [w EXCEPT !.tick.pc = "detail"])
    /\ UNCHANGED <<now, webhookSet, subscriptions,
                   sseClients, broken, partVars>>

\* the item-detail request fails (fetchItemsDetail throws)
DetailFail(n) ==
    /\ ticks[n].pc = "detail"
    /\ Commit(n, EndCycle(World(n), subscriptions, n, "detail_fail", FALSE, now))
    /\ UNCHANGED <<now, webhookSet, subscriptions,
                   sseClients, broken, partVars>>

\* the item-detail rows arrive: the entry loop runs
DetailOk(n) ==
    /\ ticks[n].pc = "detail"
    /\ Commit(n, ProcessEvents(World(n), subscriptions, n, 1, now))
    /\ UNCHANGED <<now, webhookSet, subscriptions,
                   sseClients, broken, partVars>>

\* the webhook POST succeeds: putDedupe, then the loop goes on
NotifyOk(n) ==
    /\ ticks[n].pc = "hook"
    /\ LET w  == World(n)
           tk == ticks[n]
           key == posted[tk.post].id
           w1 == [w EXCEPT !.posted[tk.post].st = "ok",
                           !.sentKeys = putDedupe(w.sentKeys, key, now)]
       IN  Commit(n, ProcessEvents(w1, subscriptions, n, tk.i + 1, now))
    /\ UNCHANGED <<now, webhookSet, subscriptions,
                   sseClients, broken, partVars>>

\* a notifier that repeats a failed POST
NotifyFailRetry(n) ==
    /\ ticks[n].pc = "hook"
    /\ posted[ticks[n].post].st = "sent"
    /\ LET w  == World(n)
           w1 == [w EXCEPT !.posted[ticks[n].post].st = "failed",
                           !.posted = Append(@, [posted[ticks[n].post]
                                                    EXCEPT !.st = "retry"])]
       IN  Commit(n, w1)
    /\ UNCHANGED <<now, webhookSet, subscriptions,
                   sseClients, broken, partVars>>

\* the webhook POST fails: axios.post rejects inside notifyDiscordDrop
NotifyFail(n) ==
    /\ ticks[n].pc = "hook"
    /\ LET w  == World(n)
           w1 == [w EXCEPT !.posted[ticks[n].post].st = "failed"]
       IN  Commit(n, EndCycle(w1, subscriptions, n, "hook_fail", FALSE, now))
    /\ UNCHANGED <<now, webhookSet, subscriptions,
                   sseClients, broken, partVars>>

\* the 60 s dedupe sweep (a sweep that finds nothing expired changes nothing)
Sweep ==
    /\ \E k \in DOMAIN sentKeys : sentKeys[k] < now
    /\ sentKeys' = SweepKeys(sentKeys, now)
    /\ UNCHANGED <<now, webhookSet, subscriptions,
                   subObjs, ticks, sseClients, broken, received, posted, fin,
                   partVars>>

\* the server right after start-up, before any request
\* the client after mounting: useState<DropEvent[]>([]), no message handled
NoViewer == [events |-> << >>, last |-> "none", cut |-> FALSE]

Started ==
    /\ now = Epoch
    /\ subscriptions = << >>
    /\ subObjs = << >>
    /\ ticks = << >>
    /\ sentKeys = << >>
    /\ received = [c \in Responses |-> << >>]
    /\ posted = << >>
    /\ fin = NoFin
    /\ lookup = NoLookup
    /\ gone = {}
    /\ pub = NoPub
    /\ fx = NoFetch
    /\ rar = NoRar
    /\ chan = NoChan
    /\ viewer = NoViewer

\* the poll loop is modelled with two viewers connected, the first of which
\* has become unwritable
Init ==
    /\ Started
    /\ webhookSet \in BOOLEAN
    /\ sseClients = <<1, 2>>
    /\ broken = {1}

Next ==
    \/ \E k \in Keys : Subscribe(k)
    \/ \E d \in Jumps : Tick(d)
    \/ \E n \in 1..Len(ticks) : FetchFail(n)
    \/ \E n \in 1..Len(ticks), ev \in Timelines : FetchOk(n, ev)
    \/ \E n \in 1..Len(ticks) : DetailFail(n)
    \/ \E n \in 1..Len(ticks) : DetailOk(n)
    \/ \E n \in 1..Len(ticks) : NotifyOk(n)
    \/ \E n \in 1..Len(ticks) : NotifyFail(n)
    \/ Sweep

Spec == Init /\ [][Next]_vars

(* ==================== the poll loop with two entities ================= *)
PairKeys == Keys \cup {"cain:c2"}
PairTimelines == {TlEmpty, TlNative}
PairJumps == {POLL_TICK_MS, POLL_INTERVAL_SEC * 1000}

NextPair ==
    \/ \E k \in PairKeys : Subscribe(k)
    \/ \E d \in PairJumps : Tick(d)
    \/ \E n \in 1..Len(ticks) : FetchFail(n)
    \/ \E n \in 1..Len(ticks), ev \in PairTimelines : FetchOk(n, ev)
    \/ \E n \in 1..Len(ticks) : DetailFail(n)
    \/ \E n \in 1..Len(ticks) : DetailOk(n)
    \/ \E n \in 1..Len(ticks) : NotifyOk(n)
    \/ \E n \in 1..Len(ticks) : NotifyFail(n)

SpecPair == Init /\ [][NextPair]_vars

(* ======================= the dedupe cache alone ======================= *)
\* bound: clock advances of SpecDedupe
MaxDedupeAdvance == 3

\* the keys the cache is exercised with
DedupeKeys == {makeEventKey(k, it, EntryTime) : k \in Keys, it \in {"Y", "W"}}

\* one sweep period, one TTL
DedupeJumps == {60 * 1000, DEDUPE_TTL_MS}

DdInit ==
    /\ Started
    /\ webhookSet = TRUE
    /\ sseClients = << >>
    /\ broken = {}

\* putDedupe(key) at the current time
DdPut(k) ==
    /\ sentKeys' = putDedupe(sentKeys, k, now)
    /\ UNCHANGED <<now, pollVars, sseClients, broken, received, partVars>>

\* hasDedupe(key) at the current time
DdHas(k) ==
    LET h == hasDedupe(sentKeys, k, now) IN
    /\ sentKeys' = h.sentKeys
    /\ lookup' = [key |-> k, had |-> HasKey(sentKeys, k),
                  exp |-> IF HasKey(sentKeys, k) THEN sentKeys[k] ELSE 0,
                  at |-> now, seen |-> h.seen,
                  kept |-> HasKey(h.sentKeys, k)]
    /\ UNCHANGED <<now, pollVars, sseClients, broken, received, gone, pub,
                   fx, rar, chan, viewer>>

\* time passes; the advances made so far are read off the clock
DdAdvance(d) ==
    /\ ((now - Epoch) \div DEDUPE_TTL_MS)
         + (((now - Epoch) % DEDUPE_TTL_MS) \div (60 * 1000)) < MaxDedupeAdvance
    /\ now' = now + d
    /\ UNCHANGED <<pollVars, sentKeys, sseClients, broken, received, partVars>>

NextDedupe ==
    \/ \E k \in DedupeKeys : DdPut(k)
    \/ \E k \in DedupeKeys : DdHas(k)
    \/ \E d \in DedupeJumps : DdAdvance(d)
    \/ Sweep

SpecDedupe == DdInit /\ [][NextDedupe]_vars

(* ======================== the broadcaster alone ======================= *)
\* bound: publishes of SpecSse
MaxPublish == 2

PublishIds == {makeEventKey(k, "Y", EntryTime) : k \in Keys}

SseInit ==
    /\ Started
    /\ webhookSet = TRUE
    /\ sseClients = << >>
    /\ broken = {}

\* the members of the Set
Members == {sseClients[j] : j \in 1..Len(sseClients)}

\* the two servers that serve GET /events: "server" is src/server.js (with
\* the 30 s keep-alive), "poll" is the polling server (with sseBroadcast)
Listeners == {"server", "poll"}

\* app.listen of one of the servers
Listen(v) ==
    /\ chan.variant = ""
    /\ chan' = [chan EXCEPT !.variant = v]
    /\ UNCHANGED <<now, pollVars, sentKeys, sseClients, broken, received,
                   lookup, gone, pub, fx, rar, viewer>>

\* GET /events that also writes the event published last to the new response
ConnectWithReplay(c) ==
    /\ chan.variant # ""
    /\ c \notin gone
    /\ c \notin broken
    /\ c \notin Members
    /\ sseClients' = Append(sseClients, c)
    /\ received' = IF chan.seq > 0
                   THEN [received EXCEPT ![c] = Append(@, pub.id)]
                   ELSE received
    /\ chan' = [chan EXCEPT
                   !.joined[c] = chan.seq,
                   !.wrote[c] = IF chan.seq > 0 THEN Append(@, chan.seq) ELSE @,
                   !.timer = IF chan.variant = "server" THEN @ \cup {c} ELSE @]
    /\ UNCHANGED <<now, pollVars, sentKeys, broken, lookup, gone, pub, fx, rar, viewer>>

\* GET /events: the greeting is written, the response joins the Set and, in
\* src/server.js, its keep-alive interval is started
Connect(c) ==
    /\ chan.variant # ""
    /\ c \notin gone
    /\ c \notin broken
    /\ c \notin Members
    /\ sseClients' = Append(sseClients, c)
    /\ chan' = [chan EXCEPT
                   !.joined[c] = chan.seq,
                   !.timer = IF chan.variant = "server" THEN @ \cup {c} ELSE @]
    /\ UNCHANGED <<now, pollVars, sentKeys, broken, received, lookup, gone,
                   pub, fx, rar, viewer>>

\* a close handler that leaves the response in the Set
CloseKeepsMember(c) ==
    /\ c \in Members
    /\ c \notin gone
    /\ gone' = gone \cup {c}
    /\ chan' = [chan EXCEPT !.left[c] = chan.seq, !.timer = @ \ {c}]
    /\ UNCHANGED <<now, pollVars, sentKeys, sseClients, broken, received,
                   lookup, pub, fx, rar, viewer>>

\* req.on("close"): (clearInterval(timer);) sseClients.delete(res)
Close(c) ==
    /\ c \in Members
    /\ sseClients' = SelectSeq(sseClients, LAMBDA x : x # c)
    /\ gone' = gone \cup {c}
    /\ chan' = [chan EXCEPT !.left[c] = chan.seq, !.timer = @ \ {c}]
    /\ UNCHANGED <<now, pollVars, sentKeys, broken, received, lookup, pub,
                   fx, rar, viewer>>

\* a registered response stops being writable: its write throws from now on
Break(c) ==
    /\ c \in Members
    /\ c \notin broken
    /\ broken' = broken \cup {c}
    /\ UNCHANGED <<now, pollVars, sentKeys, sseClients, received, lookup,
                   gone, pub, fx, rar, chan, viewer>>

\* a caller of the polling server publishes an event
Publish(id) ==
    LET b == sseBroadcast(sseClients, broken, received, id)
        wrote == {c \in Responses : b.received[c] = Append(received[c], id)}
    IN
    /\ chan.variant = "poll"
    /\ chan.seq < MaxPublish
    /\ received' = b.received
    /\ pub' = [id |-> id, order |-> sseClients,
               failed |-> Members \cap broken,
               wrote |-> wrote,
               raised |-> b.raised]
    /\ chan' = [chan EXCEPT
                   !.seq = @ + 1,
                   !.tried = [c \in Responses |->
                                 IF c \in Members THEN Append(@[c], chan.seq + 1)
                                 ELSE @[c]],
                   !.wrote = [c \in Responses |->
                                 IF c \in wrote THEN Append(@[c], chan.seq + 1)
                                 ELSE @[c]]]
    /\ UNCHANGED <<now, pollVars, sentKeys, sseClients, broken, lookup, gone,
                   fx, rar, viewer>>

\* the keep-alive interval of response c fires (src/server.js): a ping is
\* written, a throwing write is swallowed
Heartbeat(c) ==
    /\ c \in chan.timer
    /\ chan' = [chan EXCEPT
                   !.pinged = IF c \in broken THEN @ ELSE @ \cup {c},
                   !.latePing = @ \/ (c \in gone /\ c \notin broken)]
    /\ UNCHANGED <<now, pollVars, sentKeys, sseClients, broken, received,
                   lookup, gone, pub, fx, rar, viewer>>

NextSse ==
    \/ \E v \in Listeners : Listen(v)
    \/ \E c \in Responses : Connect(c)
    \/ \E c \in Responses : Close(c)
    \/ \E c \in Responses : Break(c)
    \/ \E id \in PublishIds : Publish(id)
    \/ \E c \in Responses : Heartbeat(c)

SpecSse == SseInit /\ [][NextSse]_vars

(* ================= sseBroadcast, one write at a time =================== *)
\* a loop over a live array by position: the element at the position after
\* the number of elements visited so far; 0 when past the end
NextByIndex(clients, visited) ==
    IF Cardinality(visited) + 1 <= Len(clients)
    THEN clients[Cardinality(visited) + 1]
    ELSE 0

\* for (const res of sseClients): the iterator of a Set yields the entries in
\* insertion order and passes over entries deleted before it reaches them.
\* A response is never added twice, so the entry it yields next is the first
\* entry of the Set it has not yielded; 0 when there is none
NextInSet(clients, visited) ==
    IF \E j \in 1..Len(clients) : clients[j] \notin visited
    THEN clients[CHOOSE j \in 1..Len(clients) :
                    /\ clients[j] \notin visited
                    /\ \A i \in 1..(j - 1) : clients[i] \in visited]
    ELSE 0

\* sseBroadcast is called: the loop begins
PubBegin(id) ==
    /\ chan.variant = "poll"
    /\ chan.it.pc # "iterating"
    /\ chan.seq < MaxPublish
    /\ chan' = [chan EXCEPT
                   !.seq = @ + 1,
                   !.it = [NoIter EXCEPT !.pc = "iterating", !.id = id,
                                         !.before = Members]]
    /\ UNCHANGED <<now, pollVars, sentKeys, sseClients, broken, received,
                   lookup, gone, pub, fx, rar, viewer>>

\* one pass of the loop: try { res.write(payload) } catch {}
PubWrite ==
    LET c == NextInSet(sseClients, chan.it.visited) IN
    /\ chan.it.pc = "iterating"
    /\ c # 0
    /\ received' = IF c \in broken THEN received
                   ELSE [received EXCEPT ![c] = Append(@, chan.it.id)]
    /\ chan' = [chan EXCEPT
                   !.tried[c] = Append(@, chan.seq),
                   !.wrote[c] = IF c \in broken THEN @ ELSE Append(@, chan.seq),
                   !.it.visited = @ \cup {c},
                   !.it.writes[c] = IF c \in broken THEN @ ELSE @ + 1]
    /\ UNCHANGED <<now, pollVars, sentKeys, sseClients, broken, lookup, gone,
                   pub, fx, rar, viewer>>

\* the iterator is exhausted: sseBroadcast returns
PubReturn ==
    /\ chan.it.pc = "iterating"
    /\ NextInSet(sseClients, chan.it.visited) = 0
    /\ chan' = [chan EXCEPT !.it.pc = "returned"]
    /\ UNCHANGED <<now, pollVars, sentKeys, sseClients, broken, received,
                   lookup, gone, pub, fx, rar, viewer>>

\* connects, close handlers and write failures may fall between two passes
\* of the loop
NextIter ==
    \/ \E v \in {"poll"} : Listen(v)
    \/ \E c \in Responses : Connect(c)
    \/ \E c \in Responses : Close(c)
    \/ \E c \in Responses : Break(c)
    \/ \E id \in PublishIds : PubBegin(id)
    \/ PubWrite
    \/ PubReturn

SpecIter == SseInit /\ [][NextIter]_vars

(* ========================= fetchTimelineAll =========================== *)
\* page < 10 in both fetchers' for loops
MAX_PAGES == 10
\* bound: pages the modelled upstream holds
UpPages == 2
\* bound: requests of one call the model follows
MaxRequests == 12

\* the two fetchers: "server" normalises the cursor (src/server.js), "poll"
\* follows it as it comes (the polling server)
Variants == {"server", "poll"}

\* the "next" field of a response.  none: absent; empty: ""; nonstring: a
\* truthy value that is no string; bad: a string new URL() rejects; abs: an
\* absolute URL; rel: a path.  key: the query string carries apikey;
\* to: the page the query string names, the page after the one just served
\* or, a cursor that loops, the first page.
NoCursor == [kind |-> "none", host |-> "", path |-> "", key |-> FALSE, to |-> 0]
Cursors(at) ==
    {NoCursor,
     [NoCursor EXCEPT !.kind = "empty"],
     [NoCursor EXCEPT !.kind = "nonstring"],
     [NoCursor EXCEPT !.kind = "bad"]}
    \cup [kind : {"abs"}, host : {"api", "other"}, path : {"timeline", "elsewhere"},
          key : BOOLEAN, to : {1, at + 1} \cap 1..UpPages]
    \cup [kind : {"rel"}, host : {""}, path : {"timeline", "elsewhere"},
          key : BOOLEAN, to : {1, at + 1} \cap 1..UpPages]

\* the first request: canonical path, explicit parameters, apikey
FirstRequest == [host |-> "api", path |-> "timeline", key |-> TRUE, at |-> 1]

\* the rows of upstream page p, in upstream's order
RowsOf(p) == <<2 * p - 1, 2 * p>>

\* a fetcher that puts the rows of a page before the rows collected so far
CollectInFront(out, rows) == rows \o out

\* out.push(...rows)
Collect(out, rows) == out \o rows

\* for (let page = 0; page < 10; page++) without its bound
LoopGoesOnUncapped(page) == TRUE

\* the loop condition of both fetchers
LoopGoesOn(page) == page < MAX_PAGES

\* !rawNext || typeof rawNext !== "string" (src/server.js)
ServerStops(c) == c.kind \in {"none", "empty", "nonstring"}

\* !next (the polling server)
PollStops(c) == c.kind \in {"none", "empty"}

\* src/server.js: the query string of the cursor on the canonical base,
\* apikey set when it is missing
ServerNextRequest(c) ==
    [host |-> "api", path |-> "timeline", key |-> TRUE, at |-> c.to]

\* the polling server: url = next.  A value that is no absolute URL names no
\* server (host "")
PollNextRequest(c) ==
    IF c.kind = "abs"
    THEN [host |-> c.host, path |-> c.path, key |-> c.key, at |-> c.to]
    ELSE [host |-> "", path |-> c.path, key |-> c.key, at |-> c.to]

\* one pass of the loop body after a response, up to the next await
AfterResponse(f, c) ==
    LET out == Collect(f.out, RowsOf(f.req.at))
        g   == [f EXCEPT !.out = out, !.next = c.kind,
                         !.pages = Append(@, f.req.at)]
        stops == IF f.variant = "server" THEN ServerStops(c) ELSE PollStops(c)
    IN
    IF stops THEN [g EXCEPT !.pc = "returned"]
    ELSE IF f.variant = "server" /\ c.kind = "bad"
         THEN [g EXCEPT !.pc = "thrown", !.out = << >>]
    ELSE IF ~LoopGoesOn(f.page + 1)
         THEN [g EXCEPT !.pc = "returned", !.page = f.page + 1]
    ELSE [g EXCEPT !.page = f.page + 1,
                   !.requests = f.requests + 1,
                   !.req = IF f.variant = "server" THEN ServerNextRequest(c)
                           ELSE PollNextRequest(c)]

FxInit ==
    /\ Started
    /\ webhookSet = TRUE
    /\ sseClients = << >>
    /\ broken = {}

\* a caller calls fetchTimelineAll: the first request goes out
FxCall(v) ==
    /\ fx.pc = "idle"
    /\ fx' = [pc |-> "await", variant |-> v, page |-> 0, requests |-> 1,
              req |-> FirstRequest, out |-> << >>, next |-> "none",
              pages |-> << >>]
    /\ UNCHANGED <<now, pollVars, sentKeys, sseClients, broken, received,
                   lookup, gone, pub, rar, chan, viewer>>

\* axios.get rejects: transport error, timeout or non-2xx
FxFail ==
    /\ fx.pc = "await"
    /\ fx' = [fx EXCEPT !.pc = "thrown", !.out = << >>]
    /\ UNCHANGED <<now, pollVars, sentKeys, sseClients, broken, received,
                   lookup, gone, pub, rar, chan, viewer>>

\* a server answers the request with the page's rows and a cursor
FxRespond(c) ==
    /\ fx.pc = "await"
    /\ fx.req.host # ""
    /\ fx.requests < MaxRequests
    /\ fx' = AfterResponse(fx, c)
    /\ UNCHANGED <<now, pollVars, sentKeys, sseClients, broken, received,
                   lookup, gone, pub, rar, chan, viewer>>

NextFetch ==
    \/ \E v \in Variants : FxCall(v)
    \/ FxFail
    \/ \E c \in Cursors(fx.req.at) : FxRespond(c)

SpecFetch == FxInit /\ [][NextFetch]_vars

(* ========================= rarity classifiers ========================= *)
LowerLetters == <<"a", "c", "e", "h", "i", "m", "n", "t", "y">>
UpperLetters == <<"A", "C", "E", "H", "I", "M", "N", "T", "Y">>

\* String.prototype.toUpperCase on one character
ToUpper(c) ==
    IF \E j \in 1..Len(LowerLetters) : LowerLetters[j] = c
    THEN UpperLetters[CHOOSE j \in 1..Len(LowerLetters) : LowerLetters[j] = c]
    ELSE c

\* String.prototype.toLowerCase on one character
ToLower(c) ==
    IF \E j \in 1..Len(UpperLetters) : UpperLetters[j] = c
    THEN LowerLetters[CHOOSE j \in 1..Len(UpperLetters) : UpperLetters[j] = c]
    ELSE c

\* the alternatives of the pattern of isAncientRarity
RarityPattern ==
    {Taecho, <<"m", "y", "t", "h", "i", "c">>, LabelAncient}

\* pattern alternative alt matches the characters of s at position p, each
\* character compared after canonicalisation (the i flag)
MatchesAt(alt, s, p) ==
    /\ p + Len(alt) - 1 <= Len(s)
    /\ \A k \in 1..Len(alt) : ToUpper(s[p + k - 1]) = ToUpper(alt[k])

\* isAncientRarity(r): typeof r === "string" and the pattern matches somewhere
isAncientRarity(r) ==
    /\ r.str
    /\ \E alt \in RarityPattern : \E p \in 1..Len(r.chars) :
           MatchesAt(alt, r.chars, p)

\* the rarity test of listAncientDrops in the polling server
SummaryIsAncient(r) == ~(r.chars # Taecho \/ ~r.str)

\* the detectors of the source and the rarity test each applies
Detectors == {"summary", "poll", "pollSummary"}
Detect(d, r) ==
    CASE d = "summary"     -> isAncientRarity(r)
      [] d = "poll"        -> r.str /\ PollIsAncient(r.chars)
      [] d = "pollSummary" -> SummaryIsAncient(r)

\* rarity labels: a core, possibly inside other text; and two non-strings
LabelCores ==
    {LabelAncient, <<"A", "N", "C", "I", "E", "N", "T">>,
     <<"A", "n", "c", "i", "e", "n", "t">>,
     <<"m", "y", "t", "h", "i", "c">>, <<"M", "Y", "T", "H", "I", "C">>,
     <<"M", "y", "t", "h", "i", "c">>, Taecho,
     <<"a", "n", "c", "i", "e", "n">>, <<"m", "y", "t", "h", "i">>,
     <<"a", "n", " ", "c", "i", "e", "n", "t">>, <<"TAE">>, <<"CHO", "TAE">>,
     LabelRare, <<"e", "p", "i", "c">>, << >>}
LabelPrefixes == {<< >>, <<"x">>}
LabelSuffixes == {<< >>, <<" ">>, <<"s">>}
Labels ==
    {[str |-> TRUE, chars |-> a \o b \o c] :
        a \in LabelPrefixes, b \in LabelCores, c \in LabelSuffixes}
    \cup {[str |-> FALSE, chars |-> << >>]}

RarInit ==
    /\ Started
    /\ webhookSet = TRUE
    /\ sseClients = << >>
    /\ broken = {}

\* detector d classifies an entry whose rarity label is r
Classify(d, r) ==
    /\ rar' = [pc |-> "done", det |-> d, label |-> r, accepted |-> Detect(d, r)]
    /\ UNCHANGED <<now, pollVars, sentKeys, sseClients, broken, received,
                   lookup, gone, pub, fx, chan, viewer>>

NextRarity == \E d \in Detectors, r \in Labels : Classify(d, r)

SpecRarity == RarInit /\ [][NextRarity]_vars

(* ============================== claims ================================ *)
Count(seq, x) == Cardinality({j \in 1..Len(seq) : seq[j] = x})
OkPosts(k) ==
    Cardinality({j \in 1..Len(posted) : posted[j].id = k /\ posted[j].st = "ok"})
\* consumers whose writes succeed
Healthy == {sseClients[j] : j \in 1..Len(sseClients)} \ broken
\* every dedupe record written so far is still unexpired
WithinTTL == now < Epoch + DEDUPE_TTL_MS
EventIds == {makeEventKey(k, it, EntryTime) : k \in Keys, it \in {"X", "Y", "W"}}

\* s with every character lower-cased
LowerAll(s) == [j \in 1..Len(s) |-> ToLower(s[j])]
\* t occurs in s as a contiguous run of characters
IsSubstring(t, s) ==
    \E p \in 1..(Len(s) - Len(t) + 1) : SubSeq(s, p, p + Len(t) - 1) = t
AcceptedTokens ==
    {<<"m", "y", "t", "h", "i", "c">>, <<"a", "n", "c", "i", "e", "n", "t">>,
     <<"TAE", "CHO">>}

\* C1: within the TTL window of a dedupe key, whatever the cycles, failures
\* and retries, its event is written to the live channel at most once and
\* posted to the webhook at most once, and a key recorded as delivered was
\* written exactly once and (with a webhook configured) posted exactly once.
C1_ExactlyOncePerSink ==
    WithinTTL =>
        \A k \in EventIds :
            /\ \A c \in Healthy : Count(received[c], k) <= 1
            /\ OkPosts(k) <= 1
            /\ HasKey(sentKeys, k) =>
                   /\ \A c \in Healthy : Count(received[c], k) = 1
                   /\ webhookSet => OkPosts(k) = 1

\* C2: at every moment at most one detection cycle of an entity key is
\* Running.
C2_NoOverlap ==
    \A m, n \in 1..Len(ticks) :
        (m # n /\ Running(ticks[m]) /\ Running(ticks[n]))
            => subObjs[ticks[m].sub].key # subObjs[ticks[n].sub].key

\* C3: when the timeline fetch of a cycle fails, the subscription's
\* lastCheckedISO after the cycle equals its value before the cycle (the
\* start of the cycle's window).
C3_FailedFetchKeepsLastChecked ==
    fin.outcome = "fetch_fail" => fin.lcAfter = fin.startISO

\* C4: a call of fetchTimelineAll issues at most 10 page requests, whatever
\* cursors upstream returns; as every response either ends the call or
\* issues the next request, the call ends after at most 10 responses.
C4_AtMostTenPages ==
    /\ fx.pc # "idle" => fx.requests <= MAX_PAGES
    /\ fx.pc = "await" => fx.page = fx.requests - 1

\* a call that ended at the cap although the last response still carried a
\* cursor, after a cursor had pointed back to the page before it
C4_Witness ==
    /\ fx.pc = "returned"
    /\ fx.requests = MAX_PAGES
    /\ fx.next = "abs"
    /\ \E j \in 1..(Len(fx.out) - 1) : fx.out[j + 1] <= fx.out[j]

\* C5: a cycle in which a webhook POST failed still records that event's
\* dedupe key, still processes every remaining entry, and still advances
\* lastCheckedISO to the end of its window.
C5_WebhookFailureIsolated ==
    \A j \in 1..Len(posted) :
        (posted[j].st = "failed" /\ fin.n = posted[j].n /\ fin.sub = posted[j].sub)
            => /\ HasKey(sentKeys, posted[j].id)
               /\ fin.outcome = "ok"
               /\ fin.lcAfter = fin.endISO

\* C6: a publish never raises to its caller, and it writes the event to
\* every response registered at the time whose own write does not fail,
\* wherever the failing responses stand in the Set.
C6_PublishIsolatesFailures ==
    /\ ~pub.raised
    /\ pub.wrote = {pub.order[j] : j \in 1..Len(pub.order)} \ pub.failed

\* a publish in which a failing response stood before a healthy one
C6_Witness ==
    \E i, j \in 1..Len(pub.order) :
        i < j /\ pub.order[i] \in pub.failed /\ pub.order[j] \in pub.wrote

\* C7: between a cycle observing a key as not yet seen and that key being
\* reserved, no other cycle observes the same key as not yet seen.
C7_AtomicCheckAndReserve ==
    \A m, n \in 1..Len(ticks) :
        (m # n /\ ticks[m].pc = "hook" /\ ticks[n].pc = "hook")
            => posted[ticks[m].post].id # posted[ticks[n].post].id

\* C8: a lookup of a key whose recorded expiry is earlier than the current
\* time answers "not seen" and removes the record, whether or not a sweep ran
\* since the expiry (the record was still there, so none had).
C8_LazyExpiry ==
    (lookup.had /\ lookup.exp < lookup.at) => (~lookup.seen /\ ~lookup.kept)

\* a lookup found a record that had expired and that no sweep had removed
C8_Witness ==
    lookup.had /\ lookup.exp < lookup.at /\ ~lookup.seen

\* C9: a cycle that completes on the scenario timeline (3 entries, one of
\* rarity "ancient", identifier X) has delivered exactly one DropEvent for X
\* to the live channel and to the webhook, and within the TTL no later cycle
\* adds another.
C9_ScenarioOneDelivery ==
    (WithinTTL /\ webhookSet /\ fin.outcome = "ok" /\ fin.events = TlScenario)
        => LET k == makeEventKey(subObjs[fin.sub].key, "X", EntryTime)
           IN  /\ \A c \in Healthy : Count(received[c], k) = 1
               /\ OkPosts(k) = 1

\* C10: every detector of the source accepts an entry exactly when its
\* rarity label is a string that, lower-cased, contains one of the accepted
\* tokens.
C10_EveryDetectorMatchesTokens ==
    rar.pc = "done" =>
        (rar.accepted <=>
            /\ rar.label.str
            /\ \E t \in AcceptedTokens : IsSubstring(t, LowerAll(rar.label.chars)))

\* C11: every page request of a fetchTimelineAll call carries apikey in its
\* query string, whichever cursor the request was built from.
C11_EveryRequestCarriesApikey ==
    fx.pc = "await" => fx.req.key

\* C12: the step in which a cycle's timeline fetch fails writes nothing to
\* the live channel, posts nothing, records no dedupe key, and the cycle
\* ends having received no entries and without moving lastCheckedISO.
C12_NoPartialCommit ==
    [][(\E n \in 1..Len(ticks) : FetchFail(n))
        => /\ received' = received
           /\ posted' = posted
           /\ sentKeys' = sentKeys
           /\ fin'.events = << >>
           /\ fin'.lcAfter = fin'.lcBefore]_vars

\* a cycle's fetch failed after an earlier cycle had delivered an event
C12_Witness ==
    /\ fin.outcome = "fetch_fail"
    /\ \E c \in Healthy : Len(received[c]) > 0

\* the publishes in a sequence of publish numbers
Range(seq) == {seq[j] : j \in 1..Len(seq)}

\* C13: everything written to a response is the write of a publish made
\* after the response joined the Set; nothing published before it connected
\* is ever written to it.
C13_NoReplay ==
    \A c \in Responses :
        /\ Len(received[c]) = Len(chan.wrote[c])
        /\ \A k \in Range(chan.wrote[c]) :
               chan.joined[c] >= 0 /\ k > chan.joined[c]

\* a response that connected after a publish received a later publish
C13_Witness ==
    \E c \in Responses :
        chan.joined[c] >= 1 /\ Len(received[c]) >= 1 /\ gone # {}

\* C14: a response whose request has closed is not in the Set again, no
\* publish after the close attempts a write to it, and the latest publish
\* reached every writable response that was registered when it was made.
C14_DisconnectedNotWritten ==
    /\ Members \cap gone = {}
    /\ \A c \in gone : \A k \in Range(chan.tried[c]) : k <= chan.left[c]
    /\ \A c \in Members \ broken :
           chan.joined[c] < chan.seq => chan.seq \in Range(chan.wrote[c])

\* one response closed between the first and the second publish, another
\* one received both
C14_Witness ==
    \E c \in gone, d \in Members :
        /\ chan.left[c] = 1
        /\ chan.wrote[c] = <<1>>
        /\ chan.wrote[d] = <<1, 2>>

\* C15: once a write to a response has failed in a publish, no later publish
\* writes to that response.
C15_FailedConsumerLeavesSet ==
    \A c \in Responses :
        \A k \in Range(chan.tried[c]) \ Range(chan.wrote[c]) :
            \A m \in Range(chan.tried[c]) : m <= k

\* C19: every response in the Set has a running keep-alive timer, and no
\* keep-alive is written to a response after its close signal.
C19_EveryMemberHasHeartbeat ==
    /\ Members \subseteq chan.timer
    /\ chan.timer \cap gone = {}
    /\ ~chan.latePing

\* C16: every call of notifyDiscordDrop makes one POST when the webhook URL
\* is set and none when it is not; a failed POST is followed by no further
\* POST of the same call.  (The cycle calls notifyDiscordDrop once after each
\* sseBroadcast, so the calls are counted by the writes to a healthy
\* response.)
C16_OnePostPerNotify ==
    \A c \in Healthy :
        Len(posted) = IF webhookSet THEN Len(received[c]) ELSE 0

\* a POST failed and a later call of the notifier made its own POST
C16_Witness ==
    \E i, j \in 1..Len(posted) :
        i < j /\ posted[i].st = "failed" /\ posted[j].st = "ok"

\* the entries of a timeline that upstream's item rows mark as rare
RareEntries(events) ==
    {j \in 1..Len(events) :
        \E r \in ItemDb : r.itemId = events[j].itemId /\ PollIsAncient(r.rarity)}

\* C17: when a cycle completes and advances lastCheckedISO, every rare entry
\* of the timeline it fetched has been delivered to the live channel at least
\* once.
C17_AdvanceCoversRareEntries ==
    fin.outcome = "ok" =>
        \A j \in RareEntries(fin.events) :
            \A c \in Healthy :
                Count(received[c],
                      makeEventKey(subObjs[fin.sub].key, fin.events[j].itemId,
                                   fin.events[j].date)) >= 1

\* position in the Map, from position j on, of the first subscription that
\* is due at tnow; 0 when there is none
RECURSIVE FirstDue(_, _, _, _)
FirstDue(subs, objs, j, tnow) ==
    IF j > Len(subs) THEN 0
    ELSE IF Due(objs[subs[j].obj], tnow) THEN j
    ELSE FirstDue(subs, objs, j + 1, tnow)

\* C18: every timer tick starts the cycle of the first subscription that is
\* due at that tick, whatever cycles of earlier ticks are still suspended on
\* their network calls; as a started subscription is not due for the next
\* 14.8 s, a due subscription is started after at most as many ticks as
\* there are due subscriptions before it in the Map.
C18_DueSubscriptionStarts ==
    [][\A d \in PairJumps :
          Tick(d) =>
              LET k == FirstDue(subscriptions, subObjs, 1, now')
                  tk == ticks'[Len(ticks')]
              IN  k # 0 => (tk.pc = "fetch" /\ tk.idx = k)]_vars

\* the cycle of one entity was started by a later tick while the cycle of
\* another entity, started by an earlier tick, is still awaiting its fetch
C18_Witness ==
    \E m, n \in 1..Len(ticks) :
        /\ m < n
        /\ ticks[m].pc = "fetch"
        /\ Running(ticks[n])
        /\ subObjs[ticks[m].sub].key # subObjs[ticks[n].sub].key

Failures == {"fetch_fail", "detail_fail", "hook_fail"}

\* C20: the step in which a step of a cycle fails ends the cycle inside
\* handleOneSubscription: the cycle is recorded as finished with that
\* failure, the same callback goes on to the next due subscription of the
\* Map (or returns when there is none), and the failed subscription is left
\* registered and unchanged, so that it is due again one poll interval after
\* its start.
C20_FailureEndsCycleOnly ==
    [][\A n \in 1..Len(ticks) :
          (FetchFail(n) \/ DetailFail(n) \/ NotifyFail(n)) =>
              LET tk == ticks[n]
                  k  == FirstDue(subscriptions, subObjs, tk.idx + 1, tk.tnow)
              IN  /\ fin'.n = n /\ fin'.sub = tk.sub
                  /\ fin'.outcome \in Failures
                  /\ IF k = 0 THEN ticks'[n].pc = "done"
                     ELSE ticks'[n].pc = "fetch" /\ ticks'[n].idx = k
                  /\ subObjs'[tk.sub] = subObjs[tk.sub]
                  /\ subscriptions' = subscriptions]_vars

\* after a cycle failed, the same callback is running the cycle of a
\* subscription that stands later in the Map
C20_Witness ==
    /\ fin.outcome \in Failures
    /\ ticks[fin.n].pc = "fetch"
    /\ ticks[fin.n].sub # fin.sub
    /\ subObjs[ticks[fin.n].sub].key # subObjs[fin.sub].key

\* C21: every page request of a fetchTimelineAll call goes to the API host
\* and the timeline path of the entity, whatever host or path the cursor
\* names.
C21_CanonicalBasePath ==
    fx.pc = "await" => (fx.req.host = "api" /\ fx.req.path = "timeline")

\* C22: a call whose last response carried a malformed cursor (a value that
\* is no string, or a string that cannot be parsed) does not return: it
\* throws, and the rows it had collected are discarded.
C22_MalformedCursorAborts ==
    (fx.pc \in {"returned", "thrown"} /\ fx.next \in {"nonstring", "bad"})
        => (fx.pc = "thrown" /\ fx.out = << >>)

\* the rows of the pages of a sequence of page numbers, in that order
RECURSIVE RowsOfPages(_)
RowsOfPages(ps) ==
    IF ps = << >> THEN << >> ELSE RowsOf(Head(ps)) \o RowsOfPages(Tail(ps))

\* C30: a call that returns hands back the rows of the pages it fetched, page
\* after page in the order fetched, each page's rows in upstream's order.
C30_ConcatenationInPageOrder ==
    fx.pc = "returned" => fx.out = RowsOfPages(fx.pages)

\* a call returned the rows of at least three pages
C30_Witness ==
    fx.pc = "returned" /\ Len(fx.pages) >= 3 /\ fx.pages[2] # fx.pages[1]

\* C23: any two consecutive cycle starts of one subscription object are at
\* least 14 800 ms of wall-clock time apart.
C23_Cadence ==
    \A o \in 1..Len(subObjs) :
        subObjs[o].minGap # -1
            => subObjs[o].minGap >= POLL_INTERVAL_SEC * 1000 - POLL_SLACK_MS

\* C24: a cycle that completes leaves lastCheckedISO at the end of its
\* window, and a cycle that starts when the cycle of its entity that
\* finished last was successful starts its window at that cycle's end.
C24_ContiguousWindows ==
    /\ fin.outcome \in {"ok", "empty"} => fin.lcAfter = fin.endISO
    /\ \A n \in 1..Len(ticks) :
           (Running(ticks[n]) /\ ticks[n].prevEnd # 0)
               => ticks[n].startISO = ticks[n].prevEnd

\* lastCheckedISO of the subscription registered under key k
LastChecked(subs, objs, k) == objs[subs[SubIndex(subs, k)].obj].lastCheckedISO

\* C29: the lastCheckedISO of a registered key changes only in a step in
\* which a cycle of that key completes successfully.
C29_LastCheckedFrame ==
    [][\A k \in Keys :
          (/\ SubIndex(subscriptions, k) # 0
           /\ LastChecked(subscriptions', subObjs', k)
                  # LastChecked(subscriptions, subObjs, k))
              => /\ fin' # fin
                 /\ fin'.outcome \in {"ok", "empty"}
                 /\ subObjs[fin'.sub].key = k]_vars

\* key k has an unexpired record in the dedupe cache
Recorded(k) == HasKey(sentKeys, k) /\ ~(sentKeys[k] < now)

\* C26: within the retention window, a key with an unexpired record has been
\* written to the live channel and (with a webhook configured) posted, and a
\* key without one has been neither written nor posted.
C26_DedupeRecordInvariant ==
    WithinTTL =>
        \A k \in EventIds :
            /\ Recorded(k) =>
                   /\ \A c \in Healthy : Count(received[c], k) >= 1
                   /\ webhookSet => OkPosts(k) >= 1
            /\ ~Recorded(k) =>
                   /\ \A c \in Healthy : Count(received[c], k) = 0
                   /\ \A j \in 1..Len(posted) : posted[j].id # k

\* the item id of a dedupe key
ItemOf(k) == k[2]
\* the item ids upstream has a row for
KnownItems == {r.itemId : r \in ItemDb}

\* C27: no event and no dedupe record is ever produced for an entry without
\* item id or without item row; when the entry loop runs it either suspends
\* in a webhook POST or completes the cycle successfully, advancing
\* lastCheckedISO; and a cycle that completed on a timeline with such entries
\* has delivered the rare entries of that timeline.
C27_SkippedEntries ==
    /\ [](/\ \A k \in DOMAIN sentKeys : ItemOf(k) \in KnownItems
          /\ \A c \in Responses : \A j \in 1..Len(received[c]) :
                 ItemOf(received[c][j]) \in KnownItems
          /\ \A j \in 1..Len(posted) : ItemOf(posted[j].id) \in KnownItems
          /\ (fin.outcome = "ok" /\ fin.events \in {TlScenario, TlNative})
                 => \A j \in RareEntries(fin.events) : \A c \in Healthy :
                        Count(received[c],
                              makeEventKey(subObjs[fin.sub].key,
                                           fin.events[j].itemId,
                                           fin.events[j].date)) >= 1)
    /\ [][\A n \in 1..Len(ticks) :
             (DetailOk(n) \/ NotifyOk(n)) =>
                 \/ ticks'[n].pc = "hook" /\ ticks'[n].sub = ticks[n].sub
                 \/ /\ fin'.n = n /\ fin'.sub = ticks[n].sub
                    /\ fin'.outcome = "ok"
                    /\ fin'.lcAfter = fin'.endISO]_vars

\* a cycle completed on the timeline whose first entry has no item row, and
\* the two rare entries after it were delivered
C27_Witness ==
    /\ fin.outcome = "ok"
    /\ fin.events = TlNative
    /\ fin.lcAfter = fin.endISO
    /\ \A it \in {"Y", "W"} : \A c \in Healthy :
           Count(received[c],
                 makeEventKey(subObjs[fin.sub].key, it, EntryTime)) >= 1

\* C28: a sweep at time t removes every record whose expiry is earlier than
\* t and leaves every other record as it was, adding none; and at any moment
\* hasDedupe answers the same for every key whether or not a sweep runs
\* first.
C28_SweepFrame ==
    /\ [](\A k \in DedupeKeys :
              hasDedupe(SweepKeys(sentKeys, now), k, now).seen
                  = hasDedupe(sentKeys, k, now).seen)
    /\ [][Sweep =>
             /\ DOMAIN sentKeys' \subseteq DOMAIN sentKeys
             /\ \A k \in DOMAIN sentKeys :
                    IF sentKeys[k] < now
                    THEN ~HasKey(sentKeys', k)
                    ELSE HasKey(sentKeys', k) /\ sentKeys'[k] = sentKeys[k]]_vars

\* the record that the last lookup found unexpired has since been swept,
\* while an unexpired record is still there
C28_Witness ==
    /\ lookup.seen
    /\ ~HasKey(sentKeys, lookup.key)
    /\ \E k \in DOMAIN sentKeys : ~(sentKeys[k] < now)

\* C25: when a publish has returned, whatever responses were removed from
\* the Set while it was iterating, no response was written twice, every
\* response that was in the Set when the publish began, is still in it and
\* is writable has been written exactly once, and the Set holds every
\* response it held before except the closed ones, and no closed one.
C25_MidPublishRemoval ==
    chan.it.pc = "returned" =>
        /\ \A c \in Responses : chan.it.writes[c] <= 1
        /\ \A c \in (chan.it.before \cap Members) \ broken :
               chan.it.writes[c] = 1
        /\ chan.it.before \ gone \subseteq Members
        /\ Members \cap gone = {}

\* a publish returned after a response it had already written to was removed
\* in mid-iteration, and a response behind it in the Set was written too
C25_Witness ==
    /\ chan.it.pc = "returned"
    /\ \E c \in chan.it.before \cap gone, d \in chan.it.before \cap Members :
           /\ chan.it.writes[c] = 1
           /\ chan.left[c] = chan.seq
           /\ chan.it.writes[d] = 1
           /\ Len(chan.wrote[d]) = 1
           /\ chan.joined[c] < chan.joined[d] \/ c < d

\* C31: no step ever sets the lastCheckedISO of a subscription object to an
\* earlier time than the value it has.
C31_LastCheckedMonotonic ==
    [][\A o \in 1..Len(subObjs) :
          subObjs'[o].lastCheckedISO >= subObjs[o].lastCheckedISO]_vars

\* C32: a suppressed duplicate does not extend retention. A lookup answers
\* "seen" only up to the recorded expiry; no lookup changes the expiry of a
\* record it leaves in the cache; an expiry is written only by putDedupe, as
\* the time of the call plus the TTL.
C32_NoRetentionExtension ==
    /\ [](lookup.seen => (lookup.had /\ lookup.at <= lookup.exp))
    /\ [][/\ \A k \in DedupeKeys :
                DdHas(k) =>
                    \A j \in (DOMAIN sentKeys) \cap (DOMAIN sentKeys') :
                        sentKeys'[j] = sentKeys[j]
          /\ \A j \in DOMAIN sentKeys' :
                (~HasKey(sentKeys, j) \/ sentKeys'[j] # sentKeys[j]) =>
                    (DdPut(j) /\ sentKeys'[j] = now + DEDUPE_TTL_MS)]_vars

\* a duplicate was suppressed some time after the record was written, and the
\* record still carries the expiry it had before the lookup
C32_Witness ==
    /\ lookup.seen
    /\ lookup.exp < lookup.at + DEDUPE_TTL_MS
    /\ HasKey(sentKeys, lookup.key)
    /\ sentKeys[lookup.key] = lookup.exp
    /\ now = lookup.at

\* every dedupe key the server has produced: written to a consumer, posted to
\* the webhook or recorded in the cache
ProducedKeys ==
    UNION {Range(received[c]) : c \in DOMAIN received}
        \cup {posted[j].id : j \in 1..Len(posted)}
        \cup DOMAIN sentKeys

\* C33: the dedupe key of an upstream entry depends on the entry only. Every
\* item id of the timelines names one upstream entry of a character, so two
\* keys produced for the same character and item, in whatever cycles, are the
\* same key; this includes the entry of item "U", which carries no date.
C33_KeyIsFunctionOfEntry ==
    \A a \in ProducedKeys : \A b \in ProducedKeys :
        (a[1] = b[1] /\ ItemOf(a) = ItemOf(b)) => a = b

(* ------------------------------ the viewer ------------------------------ *)
\* the length the client cuts its event list to
LIST_CAP == 100

\* a timestamp as the server formats it: a string of fixed width whose
\* characters are digits, most significant first
TimeStr(n) == <<n \div 100, (n \div 10) % 10, n % 10>>
\* the instant a timestamp string denotes
TimeVal(s) == 100 * s[1] + 10 * s[2] + s[3]

\* a.localeCompare(b) on strings of digits, from character j on: the first
\* differing character decides, a proper prefix sorts first
RECURSIVE CompareFrom(_, _, _)
CompareFrom(a, b, j) ==
    IF j > Len(a) /\ j > Len(b) THEN 0
    ELSE IF j > Len(a) THEN -1
    ELSE IF j > Len(b) THEN 1
    ELSE IF a[j] < b[j] THEN -1
    ELSE IF a[j] > b[j] THEN 1
    ELSE CompareFrom(a, b, j + 1)

LocaleCompare(a, b) == CompareFrom(a, b, 1)

\* the comparator of the client's sort
ByTimeDesc(a, b) == LocaleCompare(b.time, a.time)

\* Array.prototype.sort with ByTimeDesc, which is stable: element i goes
\* behind the elements that sort before it and the equal ones that precede it
Sort(seq) ==
    LET n == Len(seq)
        \* rank[i]: the place of seq[i] in the result (tabulated once)
        rank == SubSeq([i \in 1..n |->
                    Cardinality({j \in 1..n :
                        LET c == ByTimeDesc(seq[j], seq[i])
                        IN c < 0 \/ (c = 0 /\ j < i)}) + 1], 1, n)
    IN [r \in 1..n |-> seq[CHOOSE i \in 1..n : rank[i] = r]]

\* next.slice(0, n)
Slice(seq, n) == SubSeq(seq, 1, IF Len(seq) < n THEN Len(seq) ELSE n)

\* prev.some((p) => p.id === id)
SomeId(prev, id) == \E p \in 1..Len(prev) : prev[p].id = id

\* the updater without the id test
setEventsNoIdTest(prev, obj) == Slice(Sort(<<obj>> \o prev), LIST_CAP)

\* the updater passed to setEvents
setEvents(prev, obj) ==
    IF SomeId(prev, obj.id) THEN prev
    ELSE Slice(Sort(<<obj>> \o prev), LIST_CAP)

\* messages of the live channel: data that is not JSON, JSON without an id
\* (id 0), and DropEvents
NotJson == [kind |-> "text", id |-> 0, time |-> TimeStr(0)]
JsonNoId == [kind |-> "json", id |-> 0, time |-> TimeStr(0)]
DropEvent(id, t) == [kind |-> "json", id |-> id, time |-> TimeStr(t)]

\* a list the client holds after LIST_CAP - 1 distinct events: ids 1..99,
\* the event of id j at instant 100 + j
Backlog ==
    [p \in 1..(LIST_CAP - 1) |->
        [id |-> LIST_CAP - p, time |-> TimeStr(100 + LIST_CAP - p)]]

\* events later than, within (two of them at the instant of a listed one and
\* of each other) and earlier than the backlog, and a message that repeats the
\* id of a backlog event with another time
Messages ==
    {NotJson, JsonNoId,
     DropEvent(901, 300), DropEvent(902, 301), DropEvent(903, 150),
     DropEvent(904, 150), DropEvent(905, 50), DropEvent(906, 60),
     DropEvent(50, 999)}

\* es.onmessage: the events state after the message, and what became of it
OnMessage(m) ==
    LET prev == viewer.events
        obj  == [id |-> m.id, time |-> m.time]
        next == IF m.kind = "text" \/ m.id = 0 THEN prev
                ELSE setEvents(prev, obj)
    IN
    /\ viewer' =
         [events |-> next,
          last |-> IF m.kind = "text" THEN "text"
                   ELSE IF m.id = 0 THEN "noid"
                   ELSE IF SomeId(prev, m.id) THEN "dup"
                   ELSE "added",
          cut |-> viewer.cut
                    \/ (next # prev /\ Len(prev) = LIST_CAP)]
    /\ UNCHANGED <<now, pollVars, sentKeys, sseClients, broken, received,
                   lookup, gone, pub, fx, rar, chan>>

\* the client just mounted, or holding the backlog
ViewerInit ==
    /\ now = Epoch
    /\ webhookSet = TRUE
    /\ subscriptions = << >>
    /\ subObjs = << >>
    /\ ticks = << >>
    /\ sentKeys = << >>
    /\ sseClients = << >>
    /\ broken = {}
    /\ received = [c \in Responses |-> << >>]
    /\ posted = << >>
    /\ fin = NoFin
    /\ lookup = NoLookup
    /\ gone = {}
    /\ pub = NoPub
    /\ fx = NoFetch
    /\ rar = NoRar
    /\ chan = NoChan
    /\ viewer \in {NoViewer, [NoViewer EXCEPT !.events = Backlog]}

NextViewer == \E m \in Messages : OnMessage(m)

SpecViewer == ViewerInit /\ [][NextViewer]_vars

====
